---- MODULE Spec2Model ----
(***************************************************************************)
(* Model of goalsa's reader_thread.c: a capture thread (reader_thread_loop) *)
(* reads periods from an ALSA device into a ring of period-sized slots,    *)
(* a consumer drains it with reader_thread_poll, and reader_thread_stop    *)
(* joins the thread and frees the state.                                   *)
(*                                                                         *)
(* Every action is one atomic step of the C code between two points where  *)
(* another thread can interleave: a pthread_mutex_lock, the blocking       *)
(* snd_pcm_readi, the pthread_cond_wait, the memcpy after the unlock, and   *)
(* the unlocked accesses to s->stop.                                       *)
(***************************************************************************)
EXTENDS Integers, Sequences, FiniteSets, TLC

\* ---------------------------------------------------------------- bounds
MaxSlots == 4       \* largest bufcount passed to reader_thread_start
MaxReads == 4       \* the device's periods 1 .. MaxReads - 1 are told apart and
                    \* the history is kept while they last; the later periods
                    \* share the id MaxReads and the history is dropped

\* --------------------------------------------------- program constants
EPIPE == 32         \* errno of an ALSA overrun (rc == -EPIPE)
EIO == 5            \* some other errno: any rc < 0 that is not -EPIPE

SlotCounts == 2..MaxSlots
\* the period sizes (bytes) passed to reader_thread_start
PeriodSizes == {2}
\* what snd_pcm_readi returns: overrun, another failure, or frames read
ReadResults == {0 - EPIPE, 0 - EIO, 1}

Torn == 0 - 1       \* content of a slot copied while the device wrote it
NoData == 0         \* initial content of a slot; data of a failed poll

VARIABLES
    \* struct reader_thread_state_s
    mu,             \* owner of s->mu: "free", "loop" or "poll"
    buf,            \* s->buf, one period id per slot
    head_offset,
    tail_offset,
    period_bytes,
    buf_len,
    stop,
    overrun,
    error,
    \* reader_thread_loop
    t_pc,
    ptr,            \* offset of the slot handed to snd_pcm_readi
    next_offset,
    rc,
    pcm,            \* state of the PCM s->h: "running", or "xrun" from a
                    \* read that returned -EPIPE until snd_pcm_prepare
    \* reader_thread_poll
    p_pc,
    ret,            \* the value the call returns
    src,            \* offset of the slot memcpy reads
    callErr,        \* s->error when the latest call with a destination started
    torn,           \* the device wrote the slot the running memcpy reads
    \* reader_thread_stop
    s_pc,
    \* history
    nreads,         \* periods the device has delivered (capped at MaxReads)
    published,      \* ids of the periods published, in order
    npolls,         \* returns of calls with a destination (capped at MaxReads)
    last,           \* the latest of them: <<value returned, period copied out>>
    failSince,      \* snd_pcm_readi has failed and the latest poll return
                    \* came before the loop acted on it
    firstPollPub,   \* Len(published) when the first call with a destination
                    \* started, -1 before
    raised,         \* overrun or error has been raised at least once
    discarded,      \* largest id among the periods a resync has dropped
    readsAfterStop, \* device reads started after reader_thread_stop set stop
    nqueued,        \* periods published and neither copied out nor dropped
                    \* by a resync (counted up to slot_count)
    relFull         \* slot_count - 1 periods were queued when the capture
                    \* thread last released the mutex for a device read

state == <<mu, buf, head_offset, tail_offset, period_bytes, buf_len, stop,
           overrun, error>>
loopv == <<t_pc, ptr, next_offset, rc, pcm>>
pollv == <<p_pc, ret, src, callErr, torn>>
hist == <<nreads, published, npolls, last, failSince, firstPollPub, raised,
          discarded, readsAfterStop, nqueued, relFull>>
vars == <<state, loopv, pollv, s_pc, hist>>

\* ------------------------------------------------------------- helpers
slot_count == buf_len \div period_bytes

SlotOf(off) == off \div period_bytes

\* an advance that wraps only past the end of the buffer
AdvanceLate(off) ==
    IF off + period_bytes > buf_len THEN 0 ELSE off + period_bytes

\* lines 56-60 and 113-116: advance an offset by one period, wrapping
Advance(off) ==
    IF off + period_bytes >= buf_len THEN 0 ELSE off + period_bytes

\* periods between tail and head
Queued == ((head_offset - tail_offset) \div period_bytes) % slot_count

RECURSIVE QueuedFrom(_, _)
QueuedFrom(off, n) ==
    IF n = 0 THEN {} ELSE {buf[SlotOf(off)]} \cup QueuedFrom(Advance(off), n - 1)

QueuedIds == QueuedFrom(tail_offset, Queued)

\* a wait loop that does not look at s->error
MustWaitNoError == head_offset = tail_offset /\ ~overrun

\* line 101: the condition of the wait loop
MustWait == head_offset = tail_offset /\ ~(overrun \/ error)

\* the collision test against the wrong offset
CollidesHead(next) == next = head_offset

\* a loop without the collision test
CollidesNever(next) == FALSE

\* line 62: the slot after the one about to be read is the consumer's
Collides(next) == next = tail_offset

\* src taken after tail_offset has moved on
PollSlotAfter == Advance(tail_offset)

\* line 112: the slot a successful poll copies out
PollSlot == tail_offset

\* an Overrun return that leaves tail_offset where it was
ResyncTailKeep == tail_offset

\* an Overrun return that drops only the oldest queued period
ResyncTailNext == Advance(tail_offset)

\* line 109: where an Overrun return leaves tail_offset
ResyncTail == head_offset

\* a failed snd_pcm_readi the loop has not acted on yet
PendingFail == t_pc \in {"relock", "classify"} /\ rc < 0

\* the id the next device read writes
NewId == IF nreads < MaxReads THEN nreads + 1 ELSE MaxReads

Max(S) == CHOOSE x \in S : \A y \in S : y <= x

\* one more return of a call with a destination
Counted(n) == IF n < MaxReads THEN n + 1 ELSE n

\* the periods are still told apart and the history is kept
Tracking == nreads < MaxReads

Record(seq, x) == IF Tracking THEN Append(seq, x) ELSE seq

\* one more period published; the count stops at slot_count, one more than
\* the ring can tell apart
MoreQueued == IF nqueued < slot_count THEN nqueued + 1 ELSE nqueued

\* a publish that signals nobody
SignalledNobody(pc) == pc

\* pthread_cond_signal: wake the poll blocked in pthread_cond_wait, if any
Signalled(pc) == IF pc = "waiting" THEN "wakeup" ELSE pc

\* ---------------------------------------------------------------- Init
\* reader_thread_start(h, bytes, frames, bufcount) has returned the handle
Init ==
    /\ period_bytes \in PeriodSizes
    /\ \E bufcount \in SlotCounts :
          /\ buf_len = period_bytes * bufcount
          /\ buf = [i \in 0..(bufcount - 1) |-> NoData]
    /\ mu = "free"
    /\ head_offset = 0
    /\ tail_offset = 0
    /\ stop = FALSE
    /\ overrun = FALSE
    /\ error = FALSE
    /\ t_pc = "lock"
    /\ ptr = 0
    /\ next_offset = 0
    /\ rc = 0
    /\ pcm = "running"
    /\ p_pc = "idle"
    /\ ret = 0 - 1
    /\ src = 0
    /\ callErr = FALSE
    /\ torn = FALSE
    /\ s_pc = "idle"
    /\ nreads = 0
    /\ npolls = 0
    /\ raised = FALSE
    /\ published = <<>>
    /\ last = <<0 - 1, NoData>>
    /\ failSince = FALSE
    /\ firstPollPub = 0 - 1
    /\ discarded = 0
    /\ readsAfterStop = 0
    /\ nqueued = 0
    /\ relFull = FALSE

\* ------------------------------------------------- reader_thread_loop
\* line 53
LoopLock ==
    /\ t_pc = "lock"
    /\ mu = "free"
    /\ mu' = "loop"
    /\ t_pc' = "while"
    /\ UNCHANGED <<buf, head_offset, tail_offset, period_bytes, buf_len, stop,
                   overrun, error>>
    /\ UNCHANGED <<ptr, next_offset, rc, pcm, pollv, s_pc, hist>>

\* a loop that goes on while an overrun is pending
LoopWhileOverrun ==
    /\ t_pc = "while"
    /\ t_pc' = IF stop /\ ~overrun THEN "exit" ELSE "prepare"
    /\ UNCHANGED <<state, ptr, next_offset, rc, pcm, pollv, s_pc, hist>>

\* line 54
LoopWhile ==
    /\ t_pc = "while"
    /\ t_pc' = IF stop THEN "exit" ELSE "prepare"
    /\ UNCHANGED <<state, ptr, next_offset, rc, pcm, pollv, s_pc, hist>>

\* the device read called with the mutex still held
LoopPrepareLocked ==
    /\ t_pc = "prepare"
    /\ ptr' = head_offset
    /\ next_offset' = Advance(head_offset)
    /\ overrun' = (overrun \/ Collides(Advance(head_offset)))
    /\ raised' = (raised \/ Collides(Advance(head_offset)))
    /\ t_pc' = "read"
    /\ readsAfterStop' = IF s_pc = "idle" THEN readsAfterStop
                         ELSE readsAfterStop + 1
    /\ UNCHANGED <<mu, buf, head_offset, tail_offset, period_bytes, buf_len, stop,
                   error>>
    /\ UNCHANGED <<rc, pcm, pollv, s_pc>>
    /\ relFull' = (Queued = slot_count - 1)
    /\ UNCHANGED <<nreads, published, npolls, last, failSince, firstPollPub,
                   discarded, nqueued>>

\* lines 55-65: pick the slot, flag the collision, unlock, call the device
LoopPrepare ==
    /\ t_pc = "prepare"
    /\ ptr' = head_offset
    /\ next_offset' = Advance(head_offset)
    /\ overrun' = (overrun \/ Collides(Advance(head_offset)))
    /\ raised' = (raised \/ Collides(Advance(head_offset)))
    /\ mu' = "free"
    /\ t_pc' = "read"
    /\ readsAfterStop' = IF s_pc = "idle" THEN readsAfterStop
                         ELSE readsAfterStop + 1
    /\ UNCHANGED <<buf, head_offset, tail_offset, period_bytes, buf_len, stop,
                   error>>
    /\ UNCHANGED <<rc, pcm, pollv, s_pc>>
    /\ relFull' = (Queued = slot_count - 1)
    /\ UNCHANGED <<nreads, published, npolls, last, failSince, firstPollPub,
                   discarded, nqueued>>

\* line 66: snd_pcm_readi returns; on success the slot holds a new period.
\* With the period that reaches MaxReads the history is dropped: every slot
\* and every later period carry the id MaxReads.
LoopRead ==
    /\ t_pc = "read"
    /\ \E r \in ReadResults :
          /\ rc' = r
          /\ pcm' = IF r = 0 - EPIPE THEN "xrun" ELSE pcm
          /\ IF r < 0
             THEN /\ failSince' = TRUE
                  /\ UNCHANGED <<buf, nreads, torn, published, npolls, last,
                                 firstPollPub, raised, discarded>>
             ELSE /\ torn' = (torn \/ (p_pc = "copy" /\ src = ptr))
                  /\ nreads' = NewId
                  /\ IF NewId < MaxReads
                     THEN /\ buf' = [buf EXCEPT ![SlotOf(ptr)] = NewId]
                          /\ UNCHANGED <<published, npolls, last,
                                         firstPollPub, raised, discarded>>
                     ELSE /\ buf' = [i \in DOMAIN buf |-> MaxReads]
                          /\ published' = <<>>
                          /\ npolls' = MaxReads
                          /\ last' = <<last[1], IF last[1] = 0 THEN MaxReads
                                                ELSE NoData>>
                          /\ firstPollPub' = IF firstPollPub < 0
                                             THEN firstPollPub ELSE 0
                          /\ raised' = TRUE
                          /\ discarded' = 0
                  /\ UNCHANGED failSince
    /\ t_pc' = "relock"
    /\ UNCHANGED <<mu, head_offset, tail_offset, period_bytes, buf_len, stop,
                   overrun, error>>
    /\ UNCHANGED <<ptr, next_offset, p_pc, ret, src, callErr, s_pc>>
    /\ UNCHANGED <<readsAfterStop, nqueued, relFull>>

\* line 67
LoopRelock ==
    /\ t_pc = "relock"
    /\ mu = "free"
    /\ mu' = "loop"
    /\ t_pc' = "classify"
    /\ UNCHANGED <<buf, head_offset, tail_offset, period_bytes, buf_len, stop,
                   overrun, error>>
    /\ UNCHANGED <<ptr, next_offset, rc, pcm, pollv, s_pc, hist>>

\* a loop that publishes the period although overrun is pending
LoopClassifyNoDrop ==
    /\ t_pc = "classify"
    /\ t_pc' = "while"
    /\ IF rc = 0 - EPIPE
       THEN /\ overrun' = TRUE
            /\ raised' = TRUE
            /\ pcm' = "running"
            /\ UNCHANGED <<head_offset, error, stop, p_pc, published, nqueued>>
       ELSE IF rc < 0
       THEN /\ error' = TRUE
            /\ stop' = TRUE
            /\ raised' = TRUE
            /\ UNCHANGED <<head_offset, overrun, p_pc, published, nqueued,
                           pcm>>
       ELSE /\ p_pc' = IF head_offset = tail_offset
                       THEN Signalled(p_pc) ELSE p_pc
            /\ head_offset' = next_offset
            /\ published' = Record(published, buf[SlotOf(ptr)])
            /\ nqueued' = MoreQueued
            /\ UNCHANGED <<overrun, error, stop, raised, pcm>>
    /\ UNCHANGED <<mu, buf, tail_offset, period_bytes, buf_len>>
    /\ UNCHANGED <<ptr, next_offset, rc, ret, src, callErr, torn, s_pc>>
    /\ UNCHANGED <<nreads, npolls, last, failSince, firstPollPub, discarded,
                   readsAfterStop, relFull>>

\* a loop that moves on to the next slot after a transient overrun
LoopClassifySkip ==
    /\ t_pc = "classify"
    /\ t_pc' = "while"
    /\ IF rc = 0 - EPIPE
       THEN /\ overrun' = TRUE
            /\ raised' = TRUE
            /\ pcm' = "running"
            /\ head_offset' = next_offset
            /\ UNCHANGED <<error, stop, p_pc, published, nqueued>>
       ELSE IF rc < 0
       THEN /\ error' = TRUE
            /\ stop' = TRUE
            /\ raised' = TRUE
            /\ UNCHANGED <<head_offset, overrun, p_pc, published, nqueued,
                           pcm>>
       ELSE IF overrun
       THEN UNCHANGED <<head_offset, overrun, error, stop, p_pc, published,
                        raised, nqueued, pcm>>
       ELSE /\ p_pc' = IF head_offset = tail_offset
                       THEN Signalled(p_pc) ELSE p_pc
            /\ head_offset' = next_offset
            /\ published' = Record(published, buf[SlotOf(ptr)])
            /\ nqueued' = MoreQueued
            /\ UNCHANGED <<overrun, error, stop, raised, pcm>>
    /\ UNCHANGED <<mu, buf, tail_offset, period_bytes, buf_len>>
    /\ UNCHANGED <<ptr, next_offset, rc, ret, src, callErr, torn, s_pc>>
    /\ UNCHANGED <<nreads, npolls, last, failSince, firstPollPub, discarded,
                   readsAfterStop, relFull>>

\* lines 68-83
LoopClassify ==
    /\ t_pc = "classify"
    /\ t_pc' = "while"
    /\ IF rc = 0 - EPIPE
       THEN /\ overrun' = TRUE
            /\ raised' = TRUE
            /\ pcm' = "running"
            /\ UNCHANGED <<head_offset, error, stop, p_pc, published, nqueued>>
       ELSE IF rc < 0
       THEN /\ error' = TRUE
            /\ stop' = TRUE
            /\ raised' = TRUE
            /\ UNCHANGED <<head_offset, overrun, p_pc, published, nqueued,
                           pcm>>
       ELSE IF overrun
       THEN UNCHANGED <<head_offset, overrun, error, stop, p_pc, published,
                        raised, nqueued, pcm>>
       ELSE /\ p_pc' = IF head_offset = tail_offset
                       THEN Signalled(p_pc) ELSE p_pc
            /\ head_offset' = next_offset
            /\ published' = Record(published, buf[SlotOf(ptr)])
            /\ nqueued' = MoreQueued
            /\ UNCHANGED <<overrun, error, stop, raised, pcm>>
    /\ UNCHANGED <<mu, buf, tail_offset, period_bytes, buf_len>>
    /\ UNCHANGED <<ptr, next_offset, rc, ret, src, callErr, torn, s_pc>>
    /\ UNCHANGED <<nreads, npolls, last, failSince, firstPollPub, discarded,
                   readsAfterStop, relFull>>

\* lines 85-87
LoopExit ==
    /\ t_pc = "exit"
    /\ mu' = "free"
    /\ t_pc' = "done"
    /\ UNCHANGED <<buf, head_offset, tail_offset, period_bytes, buf_len, stop,
                   overrun, error>>
    /\ UNCHANGED <<ptr, next_offset, rc, pcm, pollv, s_pc, hist>>

Loop ==
    \/ LoopLock
    \/ LoopWhile
    \/ LoopPrepare
    \/ LoopRead
    \/ LoopRelock
    \/ LoopClassify
    \/ LoopExit

\* ------------------------------------------------- reader_thread_poll
\* the null test made only once the mutex is held
PollNullLocked ==
    /\ p_pc = "idle"
    /\ mu = "free"
    /\ ret' = 0 - 1
    /\ p_pc' = "nullret"
    /\ UNCHANGED <<state, loopv, src, callErr, torn, s_pc, hist>>

\* lines 94-97: a null destination; the call is about to return ret
PollNull ==
    /\ p_pc = "idle"
    /\ ret' = 0 - 1
    /\ p_pc' = "nullret"
    /\ UNCHANGED <<state, loopv, src, callErr, torn, s_pc, hist>>

\* line 98
PollNullReturn ==
    /\ p_pc = "nullret"
    /\ p_pc' = "idle"
    /\ UNCHANGED <<state, loopv, ret, src, callErr, torn, s_pc, hist>>

\* lines 94-96 with a destination: the call goes on to take the mutex
PollCall ==
    /\ p_pc = "idle"
    /\ s_pc # "freed"
    /\ ret' = 0 - 1
    /\ p_pc' = "lock"
    /\ callErr' = error
    /\ firstPollPub' = IF firstPollPub < 0 THEN Len(published)
                       ELSE firstPollPub
    /\ UNCHANGED <<state, loopv, src, torn, s_pc>>
    /\ UNCHANGED <<nreads, published, npolls, last, failSince, raised, discarded,
                   readsAfterStop, nqueued, relFull>>

\* line 100, and the mutex re-acquisition that ends pthread_cond_wait
PollLock ==
    /\ p_pc \in {"lock", "wakeup"}
    /\ s_pc # "freed"
    /\ mu = "free"
    /\ mu' = "poll"
    /\ p_pc' = "test"
    /\ UNCHANGED <<buf, head_offset, tail_offset, period_bytes, buf_len, stop,
                   overrun, error>>
    /\ UNCHANGED <<loopv, ret, src, callErr, torn, s_pc, hist>>

\* lines 101-103: the buffer is empty and no flag is set, wait
PollWait ==
    /\ p_pc = "test"
    /\ s_pc # "freed"
    /\ MustWait
    /\ mu' = "free"
    /\ p_pc' = "waiting"
    /\ UNCHANGED <<buf, head_offset, tail_offset, period_bytes, buf_len, stop,
                   overrun, error>>
    /\ UNCHANGED <<loopv, ret, src, callErr, torn, s_pc, hist>>

\* an Error return that drops what is queued, as an Overrun return does
PollErrorResync ==
    /\ p_pc = "test"
    /\ s_pc # "freed"
    /\ ~MustWait
    /\ error
    /\ tail_offset' = head_offset
    /\ nqueued' = 0
    /\ mu' = "free"
    /\ p_pc' = "idle"
    /\ last' = <<0 - 1, NoData>>
    /\ npolls' = Counted(npolls)
    /\ failSince' = PendingFail
    /\ UNCHANGED <<buf, head_offset, period_bytes, buf_len, stop, overrun,
                   error>>
    /\ UNCHANGED <<loopv, ret, src, callErr, torn, s_pc>>
    /\ UNCHANGED <<nreads, published, firstPollPub, raised, discarded,
                   readsAfterStop, relFull>>

\* lines 104-105, 118-122: error
PollError ==
    /\ p_pc = "test"
    /\ s_pc # "freed"
    /\ ~MustWait
    /\ error
    /\ mu' = "free"
    /\ p_pc' = "idle"
    /\ last' = <<0 - 1, NoData>>
    /\ npolls' = Counted(npolls)
    /\ failSince' = PendingFail
    /\ UNCHANGED <<buf, head_offset, tail_offset, period_bytes, buf_len, stop,
                   overrun, error>>
    /\ UNCHANGED <<loopv, ret, src, callErr, torn, s_pc>>
    /\ UNCHANGED <<nreads, published, firstPollPub, raised, discarded,
                   readsAfterStop, nqueued, relFull>>

\* lines 106-109, 118-122: overrun, drop everything queued
PollOverrun ==
    /\ p_pc = "test"
    /\ s_pc # "freed"
    /\ ~MustWait
    /\ ~error
    /\ overrun
    /\ overrun' = FALSE
    /\ tail_offset' = ResyncTail
    /\ discarded' = IF Tracking THEN Max(QueuedIds \cup {discarded}) ELSE 0
    /\ nqueued' = 0
    /\ mu' = "free"
    /\ p_pc' = "idle"
    /\ last' = <<1, NoData>>
    /\ npolls' = Counted(npolls)
    /\ failSince' = PendingFail
    /\ UNCHANGED <<buf, head_offset, period_bytes, buf_len, stop, error>>
    /\ UNCHANGED <<loopv, ret, src, callErr, torn, s_pc>>
    /\ UNCHANGED <<nreads, published, firstPollPub, raised, readsAfterStop, relFull>>

\* lines 110-118: success, take the slot at tail and unlock
PollDequeue ==
    /\ p_pc = "test"
    /\ s_pc # "freed"
    /\ ~MustWait
    /\ ~error
    /\ ~overrun
    /\ ret' = 0
    /\ src' = PollSlot
    /\ tail_offset' = Advance(tail_offset)
    /\ torn' = FALSE
    /\ mu' = "free"
    /\ p_pc' = "copy"
    /\ nqueued' = IF nqueued > 0 THEN nqueued - 1 ELSE 0
    /\ UNCHANGED <<buf, head_offset, period_bytes, buf_len, stop, overrun,
                   error>>
    /\ UNCHANGED <<loopv, callErr, s_pc>>
    /\ UNCHANGED <<nreads, published, npolls, last, failSince, firstPollPub,
                   raised, discarded, readsAfterStop, relFull>>

\* what a memcpy of the slot at src delivers: the slot's period, or a mix
\* when the device writes the slot while it is copied
Copied ==
    IF torn \/ (t_pc = "read" /\ ptr = src)
    THEN {buf[SlotOf(src)], Torn}
    ELSE {buf[SlotOf(src)]}

\* lines 119-122: memcpy outside the mutex, return 0
PollCopy ==
    /\ p_pc = "copy"
    /\ s_pc # "freed"
    /\ \E d \in Copied : last' = <<ret, d>>
    /\ npolls' = Counted(npolls)
    /\ p_pc' = "idle"
    /\ ret' = 0 - 1
    /\ torn' = FALSE
    /\ failSince' = PendingFail
    /\ UNCHANGED <<state, loopv, src, callErr, s_pc>>
    /\ UNCHANGED <<nreads, published, firstPollPub, raised, discarded,
                   readsAfterStop, nqueued, relFull>>

\* pthread_cond_wait may return without a signal
SpuriousWake ==
    /\ p_pc = "waiting"
    /\ s_pc # "freed"
    /\ p_pc' = "wakeup"
    /\ UNCHANGED <<state, loopv, ret, src, callErr, torn, s_pc, hist>>

\* a call still running when reader_thread_stop has freed s and s->buf
\* uses freed memory: its outcome is undefined
PollAfterFree ==
    /\ p_pc \notin {"idle", "nullret", "undefined"}
    /\ s_pc = "freed"
    /\ p_pc' = "undefined"
    /\ UNCHANGED <<state, loopv, ret, src, callErr, torn, s_pc, hist>>

Poll ==
    \/ PollNull
    \/ PollNullReturn
    \/ PollCall
    \/ PollLock
    \/ PollWait
    \/ PollError
    \/ PollOverrun
    \/ PollDequeue
    \/ PollCopy
    \/ SpuriousWake
    \/ PollAfterFree

\* ------------------------------------------------- reader_thread_stop
\* lines 165-169: s->stop is written without the mutex
StopSet ==
    /\ s_pc = "idle"
    /\ stop' = TRUE
    /\ s_pc' = "join"
    /\ UNCHANGED <<mu, buf, head_offset, tail_offset, period_bytes, buf_len,
                   overrun, error>>
    /\ UNCHANGED <<loopv, pollv, hist>>

\* lines 170-172: pthread_join returns once the loop has returned, then free
StopJoin ==
    /\ s_pc = "join"
    /\ t_pc = "done"
    /\ s_pc' = "freed"
    /\ UNCHANGED <<state, loopv, pollv, hist>>

Stop ==
    \/ StopSet
    \/ StopJoin

Next ==
    \/ Loop
    \/ Poll
    \/ Stop

Spec == Init /\ [][Next]_vars

\* the capture thread (SCHED_FIFO at the highest priority) gets the mutex when
\* it is free often enough, a running poll call is scheduled, a device read
\* returns, and pthread_join returns once the thread has; nothing makes the
\* consumer call poll, the owner call stop, or a wait wake without a signal
PollStep ==
    \/ PollNullReturn
    \/ PollLock
    \/ PollWait
    \/ PollError
    \/ PollOverrun
    \/ PollDequeue
    \/ PollCopy

\* the same start with the history dropped from the beginning: the periods
\* are not told apart, the program's own state is the one of Init
InitUntracked ==
    /\ period_bytes \in PeriodSizes
    /\ \E bufcount \in SlotCounts :
          /\ buf_len = period_bytes * bufcount
          /\ buf = [i \in 0..(bufcount - 1) |-> NoData]
    /\ mu = "free"
    /\ head_offset = 0
    /\ tail_offset = 0
    /\ stop = FALSE
    /\ overrun = FALSE
    /\ error = FALSE
    /\ t_pc = "lock"
    /\ ptr = 0
    /\ next_offset = 0
    /\ rc = 0
    /\ pcm = "running"
    /\ p_pc = "idle"
    /\ ret = 0 - 1
    /\ src = 0
    /\ callErr = FALSE
    /\ torn = FALSE
    /\ s_pc = "idle"
    /\ nreads = MaxReads
    /\ npolls = MaxReads
    /\ raised = TRUE
    /\ published = <<>>
    /\ last = <<0 - 1, NoData>>
    /\ failSince = FALSE
    /\ firstPollPub = 0 - 1
    /\ discarded = 0
    /\ readsAfterStop = 0
    /\ nqueued = 0
    /\ relFull = FALSE

FairSpec ==
    /\ InitUntracked
    /\ [][Next]_vars
    /\ SF_vars(Loop)
    /\ WF_vars(PollStep)
    /\ WF_vars(StopJoin)
\* reader_thread_start does not test bufcount: the same start, the history
\* dropped, with every bufcount from 1 on
AnySlotCounts == 1..MaxSlots

InitAnySlots ==
    /\ period_bytes \in PeriodSizes
    /\ \E bufcount \in AnySlotCounts :
          /\ buf_len = period_bytes * bufcount
          /\ buf = [i \in 0..(bufcount - 1) |-> NoData]
    /\ mu = "free"
    /\ head_offset = 0
    /\ tail_offset = 0
    /\ stop = FALSE
    /\ overrun = FALSE
    /\ error = FALSE
    /\ t_pc = "lock"
    /\ ptr = 0
    /\ next_offset = 0
    /\ rc = 0
    /\ pcm = "running"
    /\ p_pc = "idle"
    /\ ret = 0 - 1
    /\ src = 0
    /\ callErr = FALSE
    /\ torn = FALSE
    /\ s_pc = "idle"
    /\ nreads = MaxReads
    /\ npolls = MaxReads
    /\ raised = TRUE
    /\ published = <<>>
    /\ last = <<0 - 1, NoData>>
    /\ failSince = FALSE
    /\ firstPollPub = 0 - 1
    /\ discarded = 0
    /\ readsAfterStop = 0
    /\ nqueued = 0
    /\ relFull = FALSE

SpecAnySlots == InitAnySlots /\ [][Next]_vars

\* the mutex is free for the whole of every device read (lines 65-67), long
\* enough for a poll that wants it to take it: a poll that can take the mutex
\* again and again does take it
FairLockSpec ==
    /\ FairSpec
    /\ SF_vars(PollLock)

\* ============================================================ claims
Ret(r) == r[1]
Data(r) == r[2]

\* the latest return was the i-th, Success with the i-th period published
Delivered(i) ==
    /\ i <= Len(published)
    /\ last = <<0, published[i]>>

\* a running call with a destination decides in this step what to return
Decides == p_pc = "test" /\ p_pc' # "test" /\ s_pc' # "freed"

\* this step is the return of a call with a destination
Returns == p_pc \in {"test", "copy"} /\ p_pc' = "idle"

\* C1: for any slot_count >= 2, when N < slot_count - 1 periods were
\* published before the first poll and neither overrun nor error has been
\* raised, each of the first N polls returns Success with the period
\* published in its place (the i-th poll the i-th period), and none of them
\* waits on the condition variable.
C1_FifoRoundTrip ==
    (/\ slot_count >= 2
     /\ firstPollPub >= 0
     /\ firstPollPub < slot_count - 1
     /\ ~raised)
    => /\ (npolls >= 1 /\ npolls <= firstPollPub) => Delivered(npolls)
       /\ p_pc \in {"waiting", "wakeup"} => npolls >= firstPollPub

C1_Witness ==
    /\ slot_count = 4
    /\ firstPollPub = 2
    /\ ~raised
    /\ npolls = 2
    /\ last = <<0, 2>>
    /\ published[2] = 2

\* C2 as stated: with slot_count = 4 and P0, P1, P2 published by the running
\* capture thread before the first poll, each of the first three polls
\* returns Success with the period published in its place.
C2_AsStated ==
    (/\ slot_count = 4
     /\ firstPollPub = 3
     /\ s_pc = "idle"
     /\ ~error
     /\ npolls >= 1
     /\ npolls <= 3)
    => Delivered(npolls)

\* C2 amended: with slot_count = 4, once the running capture thread has
\* published P0, P1, P2 before the first poll, that poll returns Overrun;
\* with only P0, P1 published before the first poll and no overrun or error
\* raised, the first two polls return P0, P1 without waiting and the third
\* returns P2, not before P2 is published.
C2_DrainFour ==
    /\ (/\ slot_count = 4
        /\ firstPollPub = 3
        /\ s_pc = "idle"
        /\ ~error
        /\ npolls = 1)
       => last = <<1, NoData>>
    /\ (/\ slot_count = 4
        /\ firstPollPub = 2
        /\ ~raised)
       => /\ (npolls >= 1 /\ npolls <= 3) => Delivered(npolls)
          /\ p_pc \in {"waiting", "wakeup"} => npolls >= 2

C2_Witness ==
    /\ slot_count = 4
    /\ firstPollPub = 3
    /\ s_pc = "idle"
    /\ ~error
    /\ npolls = 1
    /\ last = <<1, NoData>>

C4_TerminalError ==
    callErr =>
        /\ p_pc \in {"idle", "nullret", "lock", "test", "undefined"}
        /\ p_pc = "undefined" => s_pc = "freed"
        /\ p_pc \in {"idle", "nullret"} => last = <<0 - 1, NoData>>

C4_Witness ==
    /\ callErr
    /\ p_pc = "idle"
    /\ overrun
    /\ head_offset # tail_offset
    /\ last = <<0 - 1, NoData>>

\* C5: a poll blocked on an empty buffer when the capture thread records a
\* fatal read error eventually leaves the wait (and returns Error), as long
\* as the instance is not being stopped.
C5_BlockedPollSeesError ==
    (p_pc = "waiting" /\ error /\ s_pc = "idle")
        ~> (p_pc # "waiting" \/ s_pc # "idle")

\* from some point on every device read succeeds
DeviceRecovers == <>[](t_pc \in {"relock", "classify"} => rc >= 0)

\* C6: with a device that recovers, a poll blocked on an empty buffer when
\* the device reports a transient overrun eventually leaves the wait (and
\* returns Overrun), as long as no fatal error is recorded and the instance
\* is not being stopped.
C6_BlockedPollSeesOverrun ==
    DeviceRecovers =>
        ((p_pc = "waiting" /\ overrun /\ ~error /\ s_pc = "idle")
            ~> (p_pc # "waiting" \/ error \/ s_pc # "idle"))

\* C7: the slot the device read writes is never the slot a poll is copying
\* out after it released the mutex.
C7_SlotStable ==
    ~(t_pc = "read" /\ p_pc = "copy" /\ ptr = src)

\* C8: the capture thread does not hold the mutex during the device read,
\* and a poll waiting for the mutex at that time can take it.
C8_ReadUnlocked ==
    /\ t_pc = "read" => mu # "loop"
    /\ (t_pc = "read" /\ p_pc \in {"lock", "wakeup"}) => ENABLED PollLock

C8_Witness ==
    /\ t_pc = "read"
    /\ mu = "poll"
    /\ p_pc = "test"

\* C9: after reader_thread_stop has set stop the capture thread starts at
\* most one more device read, and the join completes (the thread is done and
\* the state is freed), with or without polls and whatever overrun is.
C9_StopTerminates ==
    /\ [](readsAfterStop <= 1)
    /\ (s_pc = "join") ~> (s_pc = "freed" /\ t_pc = "done")

C9_Witness ==
    /\ s_pc = "freed"
    /\ t_pc = "done"
    /\ readsAfterStop = 1
    /\ firstPollPub < 0
    /\ overrun

\* C10: a poll with a null destination can be made in every state, returns
\* -1 in its next step without taking the mutex or waiting, and changes none
\* of head_offset, tail_offset, stop, overrun, error.
C10_NullDestination ==
    /\ [](p_pc = "idle" => ENABLED PollNull)
    /\ [](p_pc = "nullret" => ENABLED PollNullReturn)
    /\ [][(p_pc # p_pc' /\ "nullret" \in {p_pc, p_pc'})
          => /\ {p_pc, p_pc'} = {"idle", "nullret"}
             /\ ret' = 0 - 1
             /\ UNCHANGED <<mu, head_offset, tail_offset, stop, overrun,
                            error>>]_vars

C10_Witness ==
    /\ p_pc = "nullret"
    /\ ret = 0 - 1
    /\ mu = "loop"
    /\ overrun
    /\ head_offset # tail_offset

\* C11: in every reachable state the number of periods published and neither
\* copied out nor dropped equals (head_offset - tail_offset) / period_bytes
\* modulo slot_count and is at most slot_count - 1, head_offset equals
\* tail_offset exactly when that number is 0, and no step moves head_offset
\* onto tail_offset.
C11_RingCapacity ==
    /\ [](/\ nqueued = Queued
          /\ nqueued <= slot_count - 1
          /\ (head_offset = tail_offset) <=> (nqueued = 0))
    /\ [][head_offset' # head_offset => head_offset' # tail_offset']_vars

C11_Witness ==
    /\ slot_count = 4
    /\ nqueued = slot_count - 1
    /\ tail_offset = period_bytes
    /\ head_offset = 0
    /\ npolls >= 1
    /\ ~overrun

\* C12: in every reachable state error implies stop; a step taken with error
\* set leaves error set and changes neither head_offset nor tail_offset
\* (the capture thread exits, a poll returns Error without dequeuing).
C12_ErrorTerminal ==
    /\ [](error => stop)
    /\ [][error => /\ error'
                   /\ head_offset' = head_offset
                   /\ tail_offset' = tail_offset]_vars

C12_Witness ==
    /\ error
    /\ stop
    /\ t_pc = "done"
    /\ head_offset # tail_offset
    /\ overrun
    /\ p_pc = "idle"
    /\ npolls >= 2
    /\ last = <<0 - 1, NoData>>

\* an offset of exactly one whole slot inside the buffer
SlotOffset(off) ==
    /\ off >= 0
    /\ off + period_bytes <= buf_len
    /\ off % period_bytes = 0

\* C13: for slot_count >= 1, in every reachable state head_offset and
\* tail_offset are multiples of period_bytes in [0, period_bytes *
\* slot_count), the slot of a device read in flight and the slot of a running
\* copy are whole slots inside the buffer, and a step that moves head_offset
\* moves it one period on, to 0 from the last slot.
C13_OffsetRange ==
    /\ [](slot_count >= 1 =>
            /\ buf_len = period_bytes * slot_count
            /\ SlotOffset(head_offset)
            /\ SlotOffset(tail_offset)
            /\ t_pc = "read" => SlotOffset(ptr)
            /\ p_pc = "copy" => SlotOffset(src))
    /\ [][head_offset' # head_offset
            => head_offset' = (head_offset + period_bytes) % buf_len]_vars
    /\ [][tail_offset' # tail_offset
            => \/ tail_offset' = (tail_offset + period_bytes) % buf_len
               \/ tail_offset' = head_offset]_vars

C13_Witness ==
    /\ slot_count = 1
    /\ nqueued = 1
    /\ head_offset = 0
    /\ tail_offset = 0
    /\ t_pc = "read"
    /\ ptr = 0
    /\ last = <<1, NoData>>

\* C14: the step in which the capture thread acts on a device read that
\* returned -EPIPE sets overrun, recovers the device (snd_pcm_prepare) and
\* leaves head_offset, tail_offset, stop and error unchanged; the device read
\* it starts next is on the same slot, which is the slot at head_offset, and
\* no device read is started on a device left in the overrun state.
C14_RetryInPlace ==
    /\ [][(t_pc = "classify" /\ t_pc' # "classify" /\ rc = 0 - EPIPE)
            => /\ overrun'
               /\ pcm = "xrun"
               /\ pcm' = "running"
               /\ UNCHANGED <<head_offset, tail_offset, stop, error>>]_vars
    /\ [][(t_pc = "prepare" /\ t_pc' = "read" /\ rc = 0 - EPIPE)
            => /\ ptr' = ptr
               /\ ptr' = head_offset']_vars
    /\ [](t_pc = "read" => pcm = "running")

C14_Witness ==
    /\ t_pc = "read"
    /\ rc = 0 - EPIPE
    /\ overrun
    /\ ~stop
    /\ ~error
    /\ ptr = head_offset
    /\ ptr = period_bytes
    /\ tail_offset = 0
    /\ npolls = 0

\* the capture thread acts in this step on the device read that has returned
Classifies == t_pc = "classify" /\ t_pc' # "classify"

\* the slot at ptr holds a period the capture thread has read and dropped
\* (lines 76-77) and no later device read has been started on it
DroppedHeld ==
    /\ nreads > 0
    /\ rc >= 0
    /\ t_pc \in {"while", "prepare", "exit", "done"}
    /\ ptr = head_offset

\* C15: only a poll returning Overrun clears overrun; when the capture thread
\* acts on a completed device read with overrun set it does not advance
\* head_offset; the slot a device read writes is none of the queued ones;
\* and no poll copies out a period the capture thread has dropped.
C15_DropWhilePending ==
    /\ [][(overrun /\ ~overrun') => (Returns /\ last' = <<1, NoData>>)]_vars
    /\ [][(Classifies /\ overrun)
            => (overrun' /\ head_offset' = head_offset)]_vars
    /\ [](t_pc = "read" => (ptr = head_offset /\ Queued < slot_count))
    /\ [][(p_pc = "copy" /\ p_pc' = "idle" /\ DroppedHeld)
            => src # ptr]_vars

\* C16: a poll that decides with overrun set and error clear returns
\* Overrun (1) in that step, copies nothing, clears overrun, sets tail_offset
\* to head_offset, which leaves no period queued, and leaves head_offset
\* unchanged.
C16_ResyncOnOverrun ==
    [][(Decides /\ overrun /\ ~error)
        => /\ Returns
           /\ last' = <<1, NoData>>
           /\ ~overrun'
           /\ tail_offset' = head_offset
           /\ head_offset' = head_offset
           /\ Queued' = 0
           /\ nqueued' = 0]_vars

C16_Witness ==
    /\ slot_count = 3
    /\ npolls = 1
    /\ last = <<1, NoData>>
    /\ p_pc = "idle"
    /\ ~overrun
    /\ discarded = 2
    /\ head_offset = 2 * period_bytes
    /\ tail_offset = head_offset

\* C17: a poll is never left waiting with a period queued: the step that
\* advances head_offset from head_offset = tail_offset is taken under the
\* mutex and wakes the poll blocked in the wait; a poll enters the wait only
\* on an empty buffer with no flag set; and a poll woken with a period queued
\* returns (with Success, Overrun or Error) without waiting again, unless
\* the instance is stopped meanwhile.
C17_NoLostWakeup ==
    /\ [](p_pc = "waiting" => head_offset = tail_offset)
    /\ [][(Classifies /\ head_offset = tail_offset
                      /\ head_offset' # head_offset)
            => /\ mu = "loop"
               /\ p_pc = "waiting" => p_pc' = "wakeup"]_vars
    /\ [][(p_pc # "waiting" /\ p_pc' = "waiting")
            => (p_pc = "test" /\ MustWait)]_vars
    /\ (p_pc = "wakeup" /\ head_offset # tail_offset)
          ~> (p_pc = "idle" \/ s_pc # "idle")

C17_Witness ==
    /\ p_pc = "wakeup"
    /\ head_offset # tail_offset
    /\ Queued = 1
    /\ mu = "loop"
    /\ t_pc = "while"
    /\ ~overrun
    /\ ~error
    /\ s_pc = "idle"

\* C18: while stop is not set, in every state where the capture thread does
\* not hold the mutex and slot_count - 1 periods are queued, overrun is set;
\* a poll that decides for Success finds at most slot_count - 2 periods
\* queued, and at most slot_count - 2 were queued when the capture thread
\* last released the mutex.
C18_EffectiveCapacity ==
    /\ []((~stop /\ mu # "loop" /\ Queued = slot_count - 1) => overrun)
    /\ [][(Decides /\ ~stop /\ p_pc' = "copy")
            => /\ Queued <= slot_count - 2
               /\ ~relFull]_vars

C18_Witness ==
    /\ slot_count = 4
    /\ ~stop
    /\ t_pc = "read"
    /\ mu = "poll"
    /\ p_pc = "test"
    /\ Queued = slot_count - 1
    /\ relFull
    /\ overrun
    /\ rc >= 0
    /\ pcm = "running"

\* every device read succeeds
DeviceSucceeds == [](t_pc \in {"relock", "classify"} => rc >= 0)

\* reader_thread_stop is not called
NeverStopped == [](s_pc = "idle")

\* the consumer keeps calling poll and is never outrun: whenever the capture
\* thread acts on a completed device read, the consumer has taken every
\* return before it and is blocked in the wait of its next call
ConsumerKeepsUp == [](t_pc = "classify" => p_pc = "waiting")

\* C19: for every slot_count >= 2, with a device whose reads always succeed,
\* no stop, and a consumer that keeps calling poll, some poll eventually
\* returns Success.
C19_MinimumProgress ==
    (DeviceSucceeds /\ NeverStopped /\ ConsumerKeepsUp)
        => <>(Ret(last) = 0)

\* C20: reader_thread_stop does not free the buffer and the state while a
\* poll is blocked in the condition wait (or on its way out of it) or is
\* copying a slot out: a poll blocked when stop is called has been woken and
\* has returned by the time of the free.
C20_TeardownSafety ==
    s_pc = "freed" => p_pc \notin {"waiting", "wakeup", "copy"}
====
